---------------------------- MODULE Spec2Model ----------------------------
(***************************************************************************)
(* Model of env_sync.py: the environment-variable stores (shell profile    *)
(* files and the Windows registry) and the interactive import/export flow. *)
(*                                                                         *)
(* Text is modelled at character level: a Python str is a sequence of      *)
(* one-character strings, a profile file is its whole text with "\n"       *)
(* characters, and startswith / in / strip / split are computed on it.     *)
(***************************************************************************)
EXTENDS Integers, Sequences, FiniteSets, TLC

-----------------------------------------------------------------------------
(* Python str operations *)

NL == "\n"

\* str.strip() with no argument removes whitespace.
Whitespace == {" ", "\t", NL}

\* the literal "export " of the f-strings and of export_variables
EXPORT == <<"e", "x", "p", "o", "r", "t", " ">>

\* the literal "all" of the overwrite/export prompts
ALL == <<"a", "l", "l">>

StartsWith(s, p) ==
    /\ Len(s) >= Len(p)
    /\ SubSeq(s, 1, Len(p)) = p

\* Python `p in s` on strings
Contains(s, p) ==
    \E i \in 1..(Len(s) - Len(p) + 1) : SubSeq(s, i, i + Len(p) - 1) = p

RECURSIVE LStrip(_, _)
LStrip(s, cs) ==
    IF s # <<>> /\ Head(s) \in cs THEN LStrip(Tail(s), cs) ELSE s

RECURSIVE RStrip(_, _)
RStrip(s, cs) ==
    IF s # <<>> /\ s[Len(s)] \in cs THEN RStrip(SubSeq(s, 1, Len(s) - 1), cs) ELSE s

\* str.strip(cs): every leading and trailing character of cs is removed
Strip(s, cs) == RStrip(LStrip(s, cs), cs)

\* index of the first c in s, 0 when absent
RECURSIVE IndexOf(_, _)
IndexOf(s, c) ==
    IF s = <<>> THEN 0
    ELSE IF Head(s) = c THEN 1
    ELSE LET r == IndexOf(Tail(s), c) IN IF r = 0 THEN 0 ELSE r + 1

\* str.split(c): the parts between the occurrences of c
RECURSIVE Split(_, _)
Split(s, c) ==
    LET i == IndexOf(s, c) IN
    IF i = 0 THEN <<s>>
    ELSE <<SubSeq(s, 1, i - 1)>> \o Split(SubSeq(s, i + 1, Len(s)), c)

\* str.lower() on the letters the model uses
LowerChar(c) ==
    CASE c = "A" -> "a"
      [] c = "B" -> "b"
      [] c = "C" -> "c"
      [] c = "L" -> "l"
      [] OTHER -> c

Lower(s) == [i \in 1..Len(s) |-> LowerChar(s[i])]

\* file.readlines(): the lines of a text, each with its "\n" when it has one
RECURSIVE ReadLines(_)
ReadLines(text) ==
    IF text = <<>> THEN <<>>
    ELSE LET i == IndexOf(text, NL) IN
         IF i = 0 THEN <<text>>
         ELSE <<SubSeq(text, 1, i)>> \o ReadLines(SubSeq(text, i + 1, Len(text)))

\* "".join(lines)
RECURSIVE Join(_)
Join(lines) ==
    IF lines = <<>> THEN <<>> ELSE Head(lines) \o Join(Tail(lines))

\* s in list
InList(x, list) == \E i \in 1..Len(list) : list[i] = x

\* a Python dict as a function; d[k] = v
EmptyDict == [k \in {} |-> <<>>]

DictSet(d, k, v) == [x \in DOMAIN d \cup {k} |-> IF x = k THEN v ELSE d[x]]

DictDel(d, k) == [x \in DOMAIN d \ {k} |-> d[x]]

-----------------------------------------------------------------------------
(* The stores *)

BASHRC == "~/.bashrc"
ZSHRC == "~/.zshrc"
Paths == {BASHRC, ZSHRC}

\* a path that does not exist
NoFile == [present |-> FALSE, text |-> <<>>]

File(text) == [present |-> TRUE, text |-> text]

\* f"export {key}="
Pattern(key) == EXPORT \o key \o <<"=">>

\* f"\nexport {key}={value}"
ExportLine(key, value) == <<NL>> \o EXPORT \o key \o <<"=">> \o value

\* EnvironmentVariableManager.variable_exists_in_shell_rc; `unreadable`
\* is open() raising, which the method catches.
variable_exists_in_shell_rc(files, rc_file, key, unreadable) ==
    IF files[rc_file].present
    THEN IF unreadable THEN FALSE
         ELSE Contains(files[rc_file].text, Pattern(key))
    ELSE FALSE

\* EnvironmentVariableManager.variable_exists_in_registry: root_key is the
\* str "HKEY_CURRENT_USER" or "HKEY_LOCAL_MACHINE", never a winreg handle, so
\* winreg.OpenKey raises TypeError, which `except Exception` turns into False.
variable_exists_in_registry(reg, key, system) ==
    IF system \notin {"user", "system"} THEN FALSE
    ELSE FALSE

\* EnvironmentVariableManager.get_shell_rc_file
get_shell_rc_file(system, zsh) ==
    IF system = "Darwin" /\ zsh THEN ZSHRC ELSE BASHRC

\* the body of export_variables' loop up to the filter: whether the line is
\* an export line, and the name and value it gives
ParseExportLine(rawline) ==
    LET line == Strip(rawline, Whitespace)
        remainder == SubSeq(line, Len(EXPORT) + 1, Len(line))
        i == IndexOf(remainder, "=")
    IN  IF StartsWith(line, EXPORT) /\ i # 0
        THEN [is |-> TRUE,
              name |-> Strip(SubSeq(remainder, 1, i - 1), Whitespace),
              value |-> Strip(Strip(Strip(SubSeq(remainder, i + 1, Len(remainder)),
                                          Whitespace), {"\""}), {"'"})]
        ELSE [is |-> FALSE, name |-> <<>>, value |-> <<>>]

\* the loop body without its filter
ExportLineInto_unfiltered(env, rawline, keys) ==
    LET var == ParseExportLine(rawline) IN
    IF var.is THEN DictSet(env, var.name, var.value) ELSE env

\* `if keys is None or var_name in keys: env_vars[var_name] = var_value`;
\* keys is [none |-> TRUE] for None, else [none |-> FALSE, list |-> ...]
ExportLineInto(env, rawline, keys) ==
    LET var == ParseExportLine(rawline) IN
    IF var.is /\ (keys.none \/ InList(var.name, keys.list))
    THEN DictSet(env, var.name, var.value)
    ELSE env

RECURSIVE ExportLines(_, _, _)
ExportLines(lines, keys, env) ==
    IF lines = <<>> THEN env
    ELSE ExportLines(Tail(lines), keys, ExportLineInto(env, Head(lines), keys))

\* EnvironmentVariableManager.export_variables (Linux and macOS)
export_variables(files, system, zsh, keys, unreadable) ==
    LET rc_file == get_shell_rc_file(system, zsh) IN
    IF files[rc_file].present /\ ~unreadable
    THEN ExportLines(ReadLines(files[rc_file].text), keys, EmptyDict)
    ELSE EmptyDict

\* WindowsEnvironmentVariableManager.export_variables: every scope but
\* "user" reads HKEY_LOCAL_MACHINE.
export_variables_Windows(reg, keys, system, unreadable) ==
    LET root == IF system = "user" THEN "user" ELSE "system" IN
    IF unreadable THEN EmptyDict
    ELSE [k \in {n \in DOMAIN reg[root] : keys.none \/ InList(n, keys.list)} |-> reg[root][k]]

\* WindowsEnvironmentVariableManager.delete_variable; DeleteValue of an
\* absent value raises, like every other failure it is caught.
delete_variable(reg, key, system, fail) ==
    IF system \notin {"user", "system"} \/ fail \/ key \notin DOMAIN reg[system]
    THEN reg
    ELSE [reg EXCEPT ![system] = DictDel(@, key)]

\* WindowsEnvironmentVariableManager.set_variable
set_variable_Windows(reg, key, value, system, fail) ==
    IF system \notin {"user", "system"} \/ fail
    THEN reg
    ELSE [reg EXCEPT ![system] = DictSet(@, key, value)]

\* the lines remove_variable_from_shell_rc writes back
RECURSIVE KeptLines(_, _)
KeptLines(lines, key) ==
    IF lines = <<>> THEN <<>>
    ELSE (IF ~StartsWith(Head(lines), Pattern(key)) THEN <<Head(lines)>> ELSE <<>>)
         \o KeptLines(Tail(lines), key)

\* LinuxEnvironmentVariableManager.remove_variable_from_shell_rc; open()
\* of a missing or unreadable file raises before anything is written.
remove_variable_from_shell_rc(files, rc_file, key, fail) ==
    IF ~files[rc_file].present \/ fail THEN files
    ELSE [files EXCEPT ![rc_file] = File(Join(KeptLines(ReadLines(@.text), key)))]

\* open(path, "a") then write
AppendTo(files, path, text, fail) ==
    IF fail THEN files
    ELSE [files EXCEPT ![path] = File(@.text \o text)]

\* LinuxEnvironmentVariableManager.set_variable
set_variable_Linux(files, key, value, fail) ==
    AppendTo(files, BASHRC, ExportLine(key, value), fail)

\* MacOSenvironmentVariableManager.set_variable
set_variable_MacOS(files, key, value, fail) ==
    AppendTo(files, ZSHRC, ExportLine(key, value), fail)

Platforms == {"Windows", "Linux", "Darwin"}

\* a factory that falls back to the Linux manager
get_environment_variable_manager_fallback(operational_system) ==
    IF operational_system = "Windows" THEN "WindowsEnvironmentVariableManager"
    ELSE IF operational_system = "Darwin" THEN "MacOSenvironmentVariableManager"
    ELSE "LinuxEnvironmentVariableManager"

\* get_environment_variable_manager; "ValueError" is the raise.
get_environment_variable_manager(operational_system) ==
    IF operational_system = "Windows" THEN "WindowsEnvironmentVariableManager"
    ELSE IF operational_system = "Linux" THEN "LinuxEnvironmentVariableManager"
    ELSE IF operational_system = "Darwin" THEN "MacOSenvironmentVariableManager"
    ELSE "ValueError"

-----------------------------------------------------------------------------
(* Inputs of the model *)

\* lines a profile may hold before the program runs
MaxLines == 2

\* I/O failures (open() or a registry call raising) injected in one run
MaxFaults == 1

\* store operations of one run of the store-level specification
MaxOps == 2

A == <<"A">>
B == <<"B">>
C == <<"C">>
Keys == {A, B, C}

\* dicts in insertion order: sequences of <<key, value>> with distinct keys
VariableSets ==
    { <<>>,
      << <<A, <<"1">> >> >>,
      << <<B, <<"2">> >>, <<A, <<"1">> >> >>,
      << <<A, <<"1">> >>, <<B, <<"2">> >>, <<C, <<"3">> >> >> }

Dict(items) == [isdict |-> TRUE, items |-> items]

\* a JSON document that is no object, e.g. [1]
NotADict == [isdict |-> FALSE, items |-> <<>>]

\* the import file: unreadable or malformed, or a JSON document
ImportFiles ==
    {[valid |-> FALSE, doc |-> Dict(<<>>)]}
    \cup {[valid |-> TRUE, doc |-> Dict(t)] : t \in VariableSets}
    \cup {[valid |-> TRUE, doc |-> NotADict]}

\* what the operator types at the "key(s) to overwrite" prompt
OverwriteChoices ==
    { <<>>,
      <<" ", ",", " ">>,
      <<"A">>,
      <<" ", "B", " ", ",", "C">>,
      <<"a", "l", "l">>,
      <<"A", "L", "L">> }

\* what the operator types at the "key(s) to export" prompt
ExportChoices ==
    { <<>>,
      <<"A">>,
      <<"A", ",", " ", "B">>,
      <<" ", "A", "l", "l", " ">>,
      <<"C", ",", "B">> }

\* answers to the y/n prompts, after .strip().lower()
Answers == {"y", "yes", "n"}

\* scopes typed at the Windows prompts, after .strip().lower()
ScopeAnswers == {"user", "system", ""}

\* profile lines: two managed lines, an indented one and a commented one
ProfileLines ==
    { EXPORT \o A \o <<"=", "7">>,
      EXPORT \o B \o <<"=", "\"", "8", "\"">>,
      <<" ">> \o EXPORT \o A \o <<"=", "9">>,
      <<"#">> \o EXPORT \o C \o <<"=", "5">> }

SeqsUpTo(S, n) == UNION {[1..m -> S] : m \in 0..n}

\* the text of the lines, "\n" between them and, if `eol`, after the last
RECURSIVE TextOf(_, _)
TextOf(lines, eol) ==
    IF lines = <<>> THEN <<>>
    ELSE IF Len(lines) = 1 THEN Head(lines) \o (IF eol THEN <<NL>> ELSE <<>>)
    ELSE Head(lines) \o <<NL>> \o TextOf(Tail(lines), eol)

Profiles ==
    {NoFile} \cup {File(TextOf(ls, eol)) : ls \in SeqsUpTo(ProfileLines, MaxLines), eol \in BOOLEAN}

SmallProfiles == {NoFile, File(EXPORT \o A \o <<"=", "7", NL>>)}

RegistryValues ==
    { EmptyDict,
      DictSet(EmptyDict, A, <<"7">>),
      DictSet(DictSet(EmptyDict, A, <<"7">>), B, <<"8">>) }

-----------------------------------------------------------------------------
(* State *)

VARIABLES
    platform,         \* platform.system()
    zsh,              \* "zsh" in os.environ.get("SHELL", "")
    files,            \* the two profile files
    reg,              \* the Environment values of HKCU ("user") and HKLM ("system")
    pc,               \* position in interactive_mode
    mode,             \* "i" or "e"
    env_vars,         \* interactive_mode's env_vars (apply flow)
    manager,          \* class of the manager, "None" before the factory ran
    rc_file,
    existing_vars,
    idx,              \* position of the running for loop
    system_choice,
    keys,             \* export filter
    exported,         \* env_vars of the export flow
    export_file,      \* what export_env_vars wrote, EmptyDict when nothing
    wrote,            \* whether export_env_vars wrote a file
    fault,            \* the exception that ended the run, "none" otherwise
    faults,           \* injected I/O failures so far
    log,              \* store calls made so far, in order
    import_failed,    \* import_env_vars took its except branch
    manual,           \* interactive_input_all ran
    confirm,          \* the answer to "set these variables on your system?"
    probed,           \* existing_vars as the probe computed it
    declined,         \* the operator declined "overwrite all"
    overwrite_choice, \* the raw text typed after declining
    files0,           \* the stores as the run found them
    reg0,
    last,             \* store-level specification: the last operation
    nops              \* store-level specification: operations so far

envVars == <<platform, zsh>>
storeVars == <<files, reg>>
flowVars == <<pc, mode, env_vars, manager, rc_file, existing_vars, idx, system_choice,
              keys, exported, export_file, wrote, fault, faults, log, import_failed,
              manual, confirm, probed, declined, overwrite_choice, files0, reg0>>
opVars == <<last, nops>>
vars == <<envVars, storeVars, flowVars, opVars>>

\* a store operation: what was called, whether it completed, the profile
\* files before it, and what it returned
Op(op, key, value, scope, ok, before, result, found, filter) ==
    [op |-> op, key |-> key, value |-> value, scope |-> scope, ok |-> ok,
     files |-> before, result |-> result, found |-> found, filter |-> filter]

NoFilter == [none |-> TRUE, list |-> <<>>]

NoOp == Op("none", <<>>, <<>>, "", FALSE, [p \in Paths |-> NoFile], EmptyDict, FALSE, NoFilter)

\* the hosts the program may run on, their profile drawn from P
Hosts(P) ==
    \/ /\ platform = "Linux"
       /\ zsh \in BOOLEAN
       /\ \E p \in P : files = [q \in Paths |-> IF q = BASHRC THEN p ELSE NoFile]
       /\ reg = [s \in {"user", "system"} |-> EmptyDict]
    \/ /\ platform = "Darwin"
       /\ zsh \in BOOLEAN
       /\ \E p \in P, o \in SmallProfiles :
             files = [q \in Paths |-> IF q = get_shell_rc_file("Darwin", zsh) THEN p ELSE o]
       /\ reg = [s \in {"user", "system"} |-> EmptyDict]
    \/ /\ platform = "Windows"
       /\ zsh = FALSE
       /\ files = [q \in Paths |-> NoFile]
       /\ reg \in [{"user", "system"} -> RegistryValues]
    \/ /\ platform = "FreeBSD"
       /\ zsh \in BOOLEAN
       /\ \E p \in SmallProfiles : files = [q \in Paths |-> p]
       /\ reg = [s \in {"user", "system"} |-> EmptyDict]

FlowInit ==
    /\ pc = "start"
    /\ mode = ""
    /\ env_vars = Dict(<<>>)
    /\ manager = "None"
    /\ rc_file = ""
    /\ existing_vars = <<>>
    /\ idx = 1
    /\ system_choice = ""
    /\ keys = [none |-> TRUE, list |-> <<>>]
    /\ exported = EmptyDict
    /\ export_file = EmptyDict
    /\ wrote = FALSE
    /\ fault = "none"
    /\ faults = 0
    /\ log = <<>>
    /\ import_failed = FALSE
    /\ manual = FALSE
    /\ confirm = ""
    /\ probed = <<>>
    /\ declined = FALSE
    /\ overwrite_choice = <<>>
    /\ files0 = files
    /\ reg0 = reg

Init ==
    /\ Hosts(Profiles)
    /\ FlowInit
    /\ last = NoOp
    /\ nops = 0

-----------------------------------------------------------------------------
(* interactive_mode *)

\* a confirmation check that takes every answer for a yes
Yes_any(answer) == TRUE

\* answer in ("y", "yes")
Yes(answer) == answer \in {"y", "yes"}

\* Python truth value of env_vars: an empty dict is false
Truthy(env) == ~env.isdict \/ env.items # <<>>

\* import_env_vars: the loaded document, {} when open() or json.load raises
import_env_vars(file) == IF file.valid THEN file.doc ELSE Dict(<<>>)

\* [k.strip() for k in parts if k.strip()]
RECURSIVE StrippedNonEmpty(_)
StrippedNonEmpty(parts) ==
    IF parts = <<>> THEN <<>>
    ELSE LET k == Strip(Head(parts), Whitespace) IN
         (IF k # <<>> THEN <<k>> ELSE <<>>) \o StrippedNonEmpty(Tail(parts))

ParseKeyList(choice) == StrippedNonEmpty(Split(choice, ","))

\* the probe loops of interactive_mode, in env_vars order
RECURSIVE ProbeShell(_, _, _, _)
ProbeShell(fs, rc, items, unreadable) ==
    IF items = <<>> THEN <<>>
    ELSE (IF variable_exists_in_shell_rc(fs, rc, Head(items)[1], unreadable)
          THEN <<Head(items)[1]>> ELSE <<>>)
         \o ProbeShell(fs, rc, Tail(items), unreadable)

RECURSIVE ProbeRegistry(_, _)
ProbeRegistry(r, items) ==
    IF items = <<>> THEN <<>>
    ELSE (IF variable_exists_in_registry(r, Head(items)[1], "user")
          THEN <<Head(items)[1]>> ELSE <<>>)
         \o ProbeRegistry(r, Tail(items))

\* the overwrite prompts shown whatever the probe found
HasConflicts_always(existing) == TRUE

\* `if existing_vars:`
HasConflicts(existing) == existing # <<>>

\* an empty explicit list falling back to every existing key
ResolveExisting_keep(existing, overwrite_all, choice) ==
    IF Yes(overwrite_all) THEN existing
    ELSE IF ParseKeyList(choice) = <<>> THEN existing
    ELSE ParseKeyList(choice)

\* existing_vars after the two overwrite prompts
ResolveExisting(existing, overwrite_all, choice) ==
    IF Yes(overwrite_all) THEN existing
    ELSE IF Lower(choice) = ALL THEN existing
    ELSE ParseKeyList(choice)

\* the items the final loops hand to set_variable
ItemsToSet(env, existing) == env.items

IsWindows(m) == m = "WindowsEnvironmentVariableManager"

LogEntry(op, key, value) == [op |-> op, key |-> key, value |-> value]

Crash(exception) ==
    /\ pc' = "crashed"
    /\ fault' = exception

\* a failure may be injected while the budget lasts
MayFail(fail) == fail => faults < MaxFaults

Count(fail) == IF fail THEN faults + 1 ELSE faults

ChooseMode ==
    /\ pc = "start"
    /\ \E m \in {"i", "e", "q"} :
          /\ mode' = m
          /\ pc' = IF m = "i" THEN "import" ELSE IF m = "e" THEN "export_choice" ELSE "done"
    /\ UNCHANGED <<envVars, storeVars, opVars, env_vars, manager, rc_file, existing_vars, idx,
                   system_choice, keys, exported, export_file, wrote, fault, faults, log,
                   import_failed, manual, confirm, probed, declined, overwrite_choice,
                   files0, reg0>>

ImportFile ==
    /\ pc = "import"
    /\ \E file \in ImportFiles :
          /\ env_vars' = import_env_vars(file)
          /\ import_failed' = ~file.valid
          /\ pc' = IF Truthy(import_env_vars(file)) THEN "confirm" ELSE "manual"
    /\ UNCHANGED <<envVars, storeVars, opVars, mode, manager, rc_file, existing_vars, idx,
                   system_choice, keys, exported, export_file, wrote, fault, faults, log,
                   manual, confirm, probed, declined, overwrite_choice, files0, reg0>>

\* interactive_input_all: the dict the operator typed, keys and values stripped
ManualInput ==
    /\ pc = "manual"
    /\ \E typed \in VariableSets :
          /\ env_vars' = Dict(typed)
          /\ pc' = IF Truthy(Dict(typed)) THEN "confirm" ELSE "done"
    /\ manual' = TRUE
    /\ UNCHANGED <<envVars, storeVars, opVars, mode, manager, rc_file, existing_vars, idx,
                   system_choice, keys, exported, export_file, wrote, fault, faults, log,
                   import_failed, confirm, probed, declined, overwrite_choice, files0, reg0>>

Confirm ==
    /\ pc = "confirm"
    /\ \E answer \in Answers :
          /\ confirm' = answer
          /\ pc' = IF Yes(answer) THEN "manager" ELSE "done"
    /\ UNCHANGED <<envVars, storeVars, opVars, mode, env_vars, manager, rc_file, existing_vars,
                   idx, system_choice, keys, exported, export_file, wrote, fault, faults, log,
                   import_failed, manual, probed, declined, overwrite_choice, files0, reg0>>

\* manager = get_environment_variable_manager(), in both flows
GetManager ==
    /\ pc = "manager"
    /\ LET m == get_environment_variable_manager(platform) IN
       IF m = "ValueError"
       THEN /\ Crash("ValueError")
            /\ UNCHANGED <<manager, rc_file>>
       ELSE /\ manager' = m
            /\ rc_file' = IF mode = "i" THEN get_shell_rc_file(platform, zsh) ELSE rc_file
            /\ pc' = IF mode = "i" THEN "probe" ELSE "export"
            /\ fault' = fault
    /\ UNCHANGED <<envVars, storeVars, opVars, mode, env_vars, existing_vars, idx,
                   system_choice, keys, exported, export_file, wrote, faults, log,
                   import_failed, manual, confirm, probed, declined, overwrite_choice,
                   files0, reg0>>

\* the existence probe; env_vars.keys() raises when the document is no dict
Probe ==
    /\ pc = "probe"
    /\ IF ~env_vars.isdict
       THEN /\ Crash("AttributeError")
            /\ UNCHANGED <<existing_vars, probed, log, faults, idx>>
       ELSE \E unreadable \in BOOLEAN :
            /\ MayFail(unreadable)
            /\ unreadable => ~IsWindows(manager) /\ files[rc_file].present
            /\ faults' = Count(unreadable)
            /\ LET found == IF IsWindows(manager)
                            THEN ProbeRegistry(reg, env_vars.items)
                            ELSE ProbeShell(files, rc_file, env_vars.items, unreadable)
               IN  /\ existing_vars' = found
                   /\ probed' = found
                   /\ pc' = IF HasConflicts(found) THEN "resolve"
                            ELSE IF IsWindows(manager) THEN "scope" ELSE "set"
            /\ log' = log \o [i \in 1..Len(env_vars.items) |->
                                 LogEntry("exists", env_vars.items[i][1], <<>>)]
            /\ idx' = 1
            /\ fault' = fault
    /\ UNCHANGED <<envVars, storeVars, opVars, mode, env_vars, manager, rc_file,
                   system_choice, keys, exported, export_file, wrote,
                   import_failed, manual, confirm, declined, overwrite_choice,
                   files0, reg0>>

\* the two overwrite prompts
Resolve ==
    /\ pc = "resolve"
    /\ \E overwrite_all \in Answers, choice \in OverwriteChoices :
          /\ Yes(overwrite_all) => choice = <<>>
          /\ declined' = ~Yes(overwrite_all)
          /\ overwrite_choice' = choice
          /\ existing_vars' = ResolveExisting(existing_vars, overwrite_all, choice)
          /\ LET resolved == ResolveExisting(existing_vars, overwrite_all, choice) IN
             pc' = IF ~Yes(overwrite_all) /\ resolved = <<>> THEN "done"
                   ELSE IF resolved # <<>> THEN "delete"
                   ELSE IF IsWindows(manager) THEN "scope" ELSE "set"
    /\ idx' = 1
    /\ UNCHANGED <<envVars, storeVars, opVars, mode, env_vars, manager, rc_file,
                   system_choice, keys, exported, export_file, wrote, fault, faults, log,
                   import_failed, manual, confirm, probed, files0, reg0>>

\* one turn of `for key in existing_vars`
DeleteStep ==
    /\ pc = "delete"
    /\ LET key == existing_vars[idx] IN
       IF manager = "MacOSenvironmentVariableManager"
       THEN \* the class has no remove_variable_from_shell_rc
            /\ Crash("AttributeError")
            /\ UNCHANGED <<files, reg, faults, log, idx>>
       ELSE \E fail \in BOOLEAN :
            /\ MayFail(fail)
            /\ faults' = Count(fail)
            /\ IF IsWindows(manager)
               THEN /\ reg' = delete_variable(reg, key, "user", fail)
                    /\ files' = files
               ELSE /\ files' = remove_variable_from_shell_rc(files, rc_file, key, fail)
                    /\ reg' = reg
            /\ log' = Append(log, LogEntry("delete", key, <<>>))
            /\ idx' = IF idx < Len(existing_vars) THEN idx + 1 ELSE 1
            /\ pc' = IF idx < Len(existing_vars) THEN "delete"
                     ELSE IF IsWindows(manager) THEN "scope" ELSE "set"
            /\ fault' = fault
    /\ UNCHANGED <<envVars, opVars, mode, env_vars, manager, rc_file, existing_vars,
                   system_choice, keys, exported, export_file, wrote,
                   import_failed, manual, confirm, probed, declined, overwrite_choice,
                   files0, reg0>>

\* Windows: "Set variables as 'user' or 'system'?"
ChooseScope ==
    /\ pc = "scope"
    /\ \E answer \in ScopeAnswers : system_choice' = answer
    /\ pc' = "set"
    /\ UNCHANGED <<envVars, storeVars, opVars, mode, env_vars, manager, rc_file, existing_vars,
                   idx, keys, exported, export_file, wrote, fault, faults, log,
                   import_failed, manual, confirm, probed, declined, overwrite_choice,
                   files0, reg0>>

\* one turn of `for key, value in env_vars.items()`
SetStep ==
    /\ pc = "set"
    /\ LET items == ItemsToSet(env_vars, existing_vars)
           key == items[idx][1]
           value == items[idx][2]
       IN  \E fail \in BOOLEAN :
            /\ MayFail(fail)
            /\ faults' = Count(fail)
            /\ IF IsWindows(manager)
               THEN /\ reg' = set_variable_Windows(reg, key, value, system_choice, fail)
                    /\ files' = files
               ELSE IF manager = "LinuxEnvironmentVariableManager"
               THEN /\ files' = set_variable_Linux(files, key, value, fail)
                    /\ reg' = reg
               ELSE /\ files' = set_variable_MacOS(files, key, value, fail)
                    /\ reg' = reg
            /\ log' = Append(log, LogEntry("set", key, value))
            /\ idx' = IF idx < Len(items) THEN idx + 1 ELSE 1
            /\ pc' = IF idx < Len(items) THEN "set" ELSE "done"
    /\ UNCHANGED <<envVars, opVars, mode, env_vars, manager, rc_file, existing_vars,
                   system_choice, keys, exported, export_file, wrote, fault,
                   import_failed, manual, confirm, probed, declined, overwrite_choice,
                   files0, reg0>>

\* the export prompt: "all" is None, anything else a list
ExportChoice ==
    /\ pc = "export_choice"
    /\ \E typed \in ExportChoices :
          LET export_choice == Strip(typed, Whitespace) IN
          keys' = IF Lower(export_choice) = ALL
                  THEN [none |-> TRUE, list |-> <<>>]
                  ELSE [none |-> FALSE, list |-> ParseKeyList(export_choice)]
    /\ pc' = "manager"
    /\ UNCHANGED <<envVars, storeVars, opVars, mode, env_vars, manager, rc_file, existing_vars,
                   idx, system_choice, exported, export_file, wrote, fault, faults, log,
                   import_failed, manual, confirm, probed, declined, overwrite_choice,
                   files0, reg0>>

\* manager.export_variables(keys), on Windows after the scope prompt
ExportStep ==
    /\ pc = "export"
    /\ \E answer \in ScopeAnswers, unreadable \in BOOLEAN :
          /\ ~IsWindows(manager) => answer = ""
          /\ MayFail(unreadable)
          /\ faults' = Count(unreadable)
          /\ system_choice' = answer
          /\ LET got == IF IsWindows(manager)
                        THEN export_variables_Windows(reg, keys, answer, unreadable)
                        ELSE export_variables(files, platform, zsh, keys, unreadable)
             IN  /\ exported' = got
                 /\ pc' = IF got = EmptyDict THEN "done" ELSE "write"
    /\ log' = Append(log, LogEntry("export", <<>>, <<>>))
    /\ UNCHANGED <<envVars, storeVars, opVars, mode, env_vars, manager, rc_file, existing_vars,
                   idx, keys, export_file, wrote, fault,
                   import_failed, manual, confirm, probed, declined, overwrite_choice,
                   files0, reg0>>

\* export_env_vars: json.dump to the named file, or the caught failure
WriteExport ==
    /\ pc = "write"
    /\ \E fail \in BOOLEAN :
          /\ MayFail(fail)
          /\ faults' = Count(fail)
          /\ wrote' = ~fail
          /\ export_file' = IF fail THEN export_file ELSE exported
    /\ pc' = "done"
    /\ UNCHANGED <<envVars, storeVars, opVars, mode, env_vars, manager, rc_file, existing_vars,
                   idx, system_choice, keys, exported, fault, log,
                   import_failed, manual, confirm, probed, declined, overwrite_choice,
                   files0, reg0>>

Next ==
    \/ ChooseMode
    \/ ImportFile
    \/ ManualInput
    \/ Confirm
    \/ GetManager
    \/ Probe
    \/ Resolve
    \/ DeleteStep
    \/ ChooseScope
    \/ SetStep
    \/ ExportChoice
    \/ ExportStep
    \/ WriteExport

Spec == Init /\ [][Next]_vars

-----------------------------------------------------------------------------
(* The store operations on their own: any short sequence of set, delete,    *)
(* exists and export calls on the manager the factory gives.                *)

StoreValues == { <<"1">>, <<"\"", "2", "\"">>, <<"x", " ", "y">> }

Filters ==
    { NoFilter,
      [none |-> FALSE, list |-> <<>>],
      [none |-> FALSE, list |-> <<A>>],
      [none |-> FALSE, list |-> <<A, B>>],
      [none |-> FALSE, list |-> <<C, B>>] }

\* profile fixtures: absent, empty, one line, an indented and a quoted line,
\* a commented line with a key held twice and no final newline
StoreProfiles ==
    { NoFile,
      File(<<>>),
      File(EXPORT \o A \o <<"=", "7", NL>>),
      File(<<" ">> \o EXPORT \o A \o <<"=", "9", NL>> \o EXPORT \o B \o <<"=", "\"", "8", "\"">>),
      File(<<"#">> \o EXPORT \o C \o <<"=", "5", NL>> \o EXPORT \o A \o <<"=", "7", NL>>
           \o EXPORT \o A \o <<"=", "1">>) }

StoreInit ==
    /\ Hosts(StoreProfiles)
    /\ platform \in Platforms
    /\ FlowInit
    /\ last = NoOp
    /\ nops = 0

\* manager.set_variable(key, value, system)
StoreSet ==
    /\ nops < MaxOps
    /\ \E key \in Keys, value \in StoreValues, scope \in {"user", "system"}, fail \in BOOLEAN :
          /\ platform # "Windows" => scope = "user"
          /\ IF platform = "Windows"
             THEN /\ reg' = set_variable_Windows(reg, key, value, scope, fail)
                  /\ files' = files
             ELSE IF platform = "Linux"
             THEN /\ files' = set_variable_Linux(files, key, value, fail)
                  /\ reg' = reg
             ELSE /\ files' = set_variable_MacOS(files, key, value, fail)
                  /\ reg' = reg
          /\ last' = Op("set", key, value, scope, ~fail, files, EmptyDict, FALSE, NoFilter)
    /\ nops' = nops + 1
    /\ UNCHANGED <<envVars, flowVars>>

\* the delete call of interactive_mode: delete_variable on Windows,
\* remove_variable_from_shell_rc on the profile otherwise; the macOS class
\* has no such method and the call raises AttributeError
StoreDelete ==
    /\ nops < MaxOps
    /\ \E key \in Keys, fail \in BOOLEAN :
          LET rc == get_shell_rc_file(platform, zsh) IN
          /\ IF platform = "Windows"
             THEN /\ reg' = delete_variable(reg, key, "user", fail)
                  /\ files' = files
                  /\ last' = Op("delete", key, <<>>, "user", ~fail /\ key \in DOMAIN reg["user"],
                                files, EmptyDict, FALSE, NoFilter)
             ELSE IF platform = "Linux"
             THEN /\ files' = remove_variable_from_shell_rc(files, rc, key, fail)
                  /\ reg' = reg
                  /\ last' = Op("delete", key, <<>>, "user", ~fail /\ files[rc].present,
                                files, EmptyDict, FALSE, NoFilter)
             ELSE /\ ~fail
                  /\ UNCHANGED <<files, reg>>
                  /\ last' = Op("delete", key, <<>>, "user", FALSE, files, EmptyDict, FALSE, NoFilter)
    /\ nops' = nops + 1
    /\ UNCHANGED <<envVars, flowVars>>

\* the exists call of interactive_mode's probe
StoreExists ==
    /\ nops < MaxOps
    /\ \E key \in Keys, unreadable \in BOOLEAN :
          LET rc == get_shell_rc_file(platform, zsh) IN
          /\ unreadable => platform # "Windows" /\ files[rc].present
          /\ last' = Op("exists", key, <<>>, "user", ~unreadable, files, EmptyDict,
                        IF platform = "Windows"
                        THEN variable_exists_in_registry(reg, key, "user")
                        ELSE variable_exists_in_shell_rc(files, rc, key, unreadable),
                        NoFilter)
    /\ nops' = nops + 1
    /\ UNCHANGED <<envVars, storeVars, flowVars>>

\* manager.export_variables(keys) / export_variables(keys, system=scope)
StoreExport ==
    /\ nops < MaxOps
    /\ \E filter \in Filters, scope \in {"user", "system"}, unreadable \in BOOLEAN :
          /\ platform # "Windows" => scope = "user"
          /\ last' = Op("export", <<>>, <<>>, scope, ~unreadable, files,
                        IF platform = "Windows"
                        THEN export_variables_Windows(reg, filter, scope, unreadable)
                        ELSE export_variables(files, platform, zsh, filter, unreadable),
                        FALSE, filter)
    /\ nops' = nops + 1
    /\ UNCHANGED <<envVars, storeVars, flowVars>>

StoreNext ==
    \/ StoreSet
    \/ StoreDelete
    \/ StoreExists
    \/ StoreExport

StoreSpec == StoreInit /\ [][StoreNext]_vars

-----------------------------------------------------------------------------
(* Properties *)

SetOf(seq) == {seq[i] : i \in 1..Len(seq)}

\* positions of the log where `op` was called for `key`
Calls(op, key) == {i \in 1..Len(log) : log[i].op = op /\ log[i].key = key}

Mutations == {i \in 1..Len(log) : log[i].op \in {"delete", "set"}}

\* the set calls of the log, in order
RECURSIVE SetCalls(_)
SetCalls(l) ==
    IF l = <<>> THEN <<>>
    ELSE (IF Head(l).op = "set" THEN << <<Head(l).key, Head(l).value>> >> ELSE <<>>)
         \o SetCalls(Tail(l))

TKeys == {env_vars.items[i][1] : i \in 1..Len(env_vars.items)}

TValue(k) == env_vars.items[CHOOSE i \in 1..Len(env_vars.items) : env_vars.items[i][1] = k][2]

StoreUntouched == files = files0 /\ reg = reg0

\* the lines of a profile that start with `export key=`
RECURSIVE LinesOf(_, _)
LinesOf(lines, key) ==
    IF lines = <<>> THEN <<>>
    ELSE (IF StartsWith(Head(lines), Pattern(key)) THEN <<Head(lines)>> ELSE <<>>)
         \o LinesOf(Tail(lines), key)

\* the lines of a profile that hold `export key=` anywhere
RECURSIVE MentionsOf(_, _)
MentionsOf(lines, key) ==
    IF lines = <<>> THEN <<>>
    ELSE (IF Contains(Head(lines), Pattern(key)) THEN <<Head(lines)>> ELSE <<>>)
         \o MentionsOf(Tail(lines), key)

ShellManagers == {"LinuxEnvironmentVariableManager", "MacOSenvironmentVariableManager"}

\* the operator declined "overwrite all" and typed a list, not the word all
ExplicitList == declined /\ Lower(overwrite_choice) # ALL

\* C1: after a finished apply flow in which the probe found keys E and the
\* operator gave an explicit non-empty list L, every key of E and L was
\* deleted and then set to its value, every key of E outside L was neither
\* deleted nor set and its profile entries are those of before, and every key
\* of the VariableSet outside E was set.
C1_ExplicitListOverwritesOnlyListed ==
    (pc = "done" /\ mode = "i" /\ probed # <<>> /\ ExplicitList /\ existing_vars # <<>>)
    => LET E == SetOf(probed)
           L == SetOf(existing_vars)
       IN  /\ \A k \in E \cap L :
                \E i \in Calls("delete", k), j \in Calls("set", k) :
                   i < j /\ log[j].value = TValue(k)
           /\ \A k \in E \ L :
                /\ Calls("delete", k) = {}
                /\ Calls("set", k) = {}
                /\ \A q \in Paths :
                      MentionsOf(ReadLines(files[q].text), k) = MentionsOf(ReadLines(files0[q].text), k)
           /\ \A k \in TKeys \ E :
                \E j \in Calls("set", k) : log[j].value = TValue(k)

\* C4: after a finished apply flow on the Linux profile in which no I/O call
\* failed, every applied key has exactly one line starting with `export K=`
\* in the profile, whatever the operator answered.
C4_OneLinePerAppliedKey ==
    (pc = "done" /\ mode = "i" /\ manager = "LinuxEnvironmentVariableManager" /\ faults = 0)
    => \A k \in TKeys :
          Calls("set", k) # {} => Len(LinesOf(ReadLines(files[BASHRC].text), k)) = 1

\* C5: once the manager is built and the VariableSet is a mapping, the apply
\* flow never ends in an exception: no delete or set step stops the batch.
C5_BatchNeverAborts ==
    (mode = "i" /\ manager \in ShellManagers \cup {"WindowsEnvironmentVariableManager"}
       /\ env_vars.isdict)
    => pc # "crashed"

\* C6: when the probe reports no existing key, delete is never called, no
\* key is set twice, and the finished flow has called set exactly once for every
\* key of the VariableSet with its value, in the VariableSet's order.
C6_NoConflictNoDelete ==
    (mode = "i" /\ (\E i \in 1..Len(log) : log[i].op = "exists") /\ probed = <<>>)
    => /\ \A i \in 1..Len(log) : log[i].op # "delete"
       /\ \A k \in TKeys : Cardinality(Calls("set", k)) <= 1
       /\ pc = "done" => SetCalls(log) = env_vars.items

C6_Witness ==
    /\ pc = "done" /\ mode = "i" /\ probed = <<>>
    /\ Len(env_vars.items) = 3
    /\ SetCalls(log) = env_vars.items
    /\ files0[BASHRC].present /\ files0[BASHRC].text # <<>>

\* C8 as stated: in a run in which import_env_vars failed, no delete and no
\* set is ever performed.
C8_ImportFailureAborts ==
    import_failed => Mutations = {}

\* C8 amended: in a run in which import_env_vars failed, a delete or set is
\* performed only after the operator typed a non-empty VariableSet by hand and
\* answered y or yes to the confirmation, and every key set is a typed one.
C8_ImportFailureFallsBackToManual ==
    (import_failed /\ Mutations # {})
    => /\ manual
       /\ env_vars.items # <<>>
       /\ confirm \in {"y", "yes"}
       /\ \A i \in Mutations : log[i].op = "set" => log[i].key \in TKeys

C8_Witness ==
    /\ import_failed /\ manual /\ pc = "done"
    /\ Calls("set", A) # {}
    /\ Calls("delete", A) # {}

\* the text typed holds nothing but commas and whitespace
BlankList(choice) == \A i \in 1..Len(choice) : choice[i] \in Whitespace \cup {","}

\* C9: when keys exist, the operator declines "overwrite all" and the list
\* typed is blank or only commas and whitespace, the flow ends at once: no
\* delete and no set is called and the stores are as the run found them.
C9_EmptyListAborts ==
    (mode = "i" /\ declined /\ BlankList(overwrite_choice))
    => /\ pc = "done"
       /\ Mutations = {}
       /\ StoreUntouched

C9_Witness ==
    /\ mode = "i" /\ declined /\ BlankList(overwrite_choice) /\ overwrite_choice # <<>>
    /\ Len(probed) = 2
    /\ pc = "done"

\* C10: the manager is the one the platform identifier maps to, and on any
\* other platform no manager is built, the run ends in the factory's
\* ValueError, and no store is read or changed and no file is written.
C10_FactoryMapping ==
    /\ manager # "None"
       => \/ platform = "Windows" /\ manager = "WindowsEnvironmentVariableManager"
          \/ platform = "Linux" /\ manager = "LinuxEnvironmentVariableManager"
          \/ platform = "Darwin" /\ manager = "MacOSenvironmentVariableManager"
    /\ platform \notin {"Windows", "Linux", "Darwin"}
       => /\ manager = "None"
          /\ log = <<>>
          /\ StoreUntouched
          /\ ~wrote
          /\ pc \in {"start", "import", "manual", "confirm", "export_choice", "manager",
                     "done", "crashed"}
          /\ pc = "crashed" => fault = "ValueError"
          /\ pc = "done" => mode # "e" /\ ~Yes(confirm)

C10_Witness ==
    /\ platform = "FreeBSD"
    /\ pc = "crashed"
    /\ fault = "ValueError"
    /\ mode = "i"
    /\ env_vars.items # <<>>

-----------------------------------------------------------------------------
(* Properties of the store operations *)

\* export_variables(None) of the backend the last operation ran on
ExportAll ==
    IF platform = "Windows"
    THEN export_variables_Windows(reg, NoFilter, last.scope, FALSE)
    ELSE export_variables(files, platform, zsh, NoFilter, FALSE)

\* a value that carries no surrounding whitespace or quotes
Plain(value) == Strip(Strip(Strip(value, Whitespace), {"\""}), {"'"}) = value

\* C2: after set(K, V) succeeds, export with no filter on the same backend
\* maps K to V (for values without surrounding quotes or whitespace, which
\* export strips).
C2_SetThenExportAll ==
    (last.op = "set" /\ last.ok /\ Plain(last.value))
    => /\ last.key \in DOMAIN ExportAll
       /\ ExportAll[last.key] = last.value

\* C3: after delete(K) on the Linux profile completes, exists(K) on the same
\* file is false, the file has lost exactly the lines that started with
\* `export K=`, and every other line is kept in order.
C3_DeleteThenNotExists ==
    (last.op = "delete" /\ last.ok /\ platform = "Linux")
    => LET rc == get_shell_rc_file(platform, zsh)
           before == ReadLines(last.files[rc].text)
           after == ReadLines(files[rc].text)
       IN  /\ ~variable_exists_in_shell_rc(files, rc, last.key, FALSE)
           /\ Len(after) = Len(before) - Len(LinesOf(before, last.key))
           /\ after = KeptLines(before, last.key)

\* the mapping a profile defines: for every name an export line gives, the
\* value of the last such line
ProfileMapping(lines) ==
    LET isVar(i) == ParseExportLine(lines[i]).is
        nameOf(i) == ParseExportLine(lines[i]).name
        names == {nameOf(i) : i \in {j \in 1..Len(lines) : isVar(j)}}
        lastOf(k) == CHOOSE i \in 1..Len(lines) :
                        /\ isVar(i) /\ nameOf(i) = k
                        /\ \A j \in (i + 1)..Len(lines) : ~(isVar(j) /\ nameOf(j) = k)
    IN  [k \in names |-> ParseExportLine(lines[lastOf(k)]).value]

\* the content S of the store the last export read
StoreContent ==
    IF platform = "Windows"
    THEN reg[last.scope]
    ELSE LET rc == get_shell_rc_file(platform, zsh) IN
         IF files[rc].present THEN ProfileMapping(ReadLines(files[rc].text)) ELSE EmptyDict

Restrict(S, F) == [k \in DOMAIN S \cap SetOf(F) |-> S[k]]

\* C7: an export with a concrete filter F that could read the store returns
\* exactly the store's content restricted to the keys of F.
C7_ExportIsRestriction ==
    (last.op = "export" /\ last.ok /\ ~last.filter.none)
    => last.result = Restrict(StoreContent, last.filter.list)

C7_Witness ==
    /\ last.op = "export" /\ last.ok /\ ~last.filter.none
    /\ last.result # EmptyDict
    /\ DOMAIN last.result # DOMAIN StoreContent
    /\ SetOf(last.filter.list) \ DOMAIN StoreContent # {}
    /\ platform = "Linux"

=============================================================================
